---- MODULE Spec2Model ----
(***************************************************************************)
(* The prompt handlers of the Dad Joke MCP server (src/server.py): the     *)
(* style catalog JOKE_STYLES, list_prompts and get_prompt.                 *)
(*                                                                         *)
(* Python strings are sequences of one-character strings, so that          *)
(* str.lower, str.format, ', '.join and the f-strings are computed         *)
(* character by character.  A value that may be None is a record           *)
(* [isNone, s]; a dict is a function from its keys to such values.         *)
(***************************************************************************)
EXTENDS Integers, Sequences, FiniteSets, TLC

\* ---- bounds ----
\* number of distinct values str(uuid.uuid4()) is drawn from
NumRequestIds == 2
\* the last reading of the clock behind datetime.utcnow()
MaxTime == 2

\* ---- identifiers of JOKE_STYLES (server.py:73-89), in declaration order ----

\* the key "pun"
K_Pun ==
  <<"p", "u", "n">>

\* the key "wordplay"
K_Wordplay ==
  <<"w", "o", "r", "d", "p", "l", "a", "y">>

\* the key "observational"
K_Observational ==
  <<"o", "b", "s", "e", "r", "v", "a", "t", "i", "o", "n", "a", "l">>

\* the key "anti-humor"
K_AntiHumor ==
  <<"a", "n", "t", "i", "-", "h", "u", "m", "o", "r">>

\* the key "question-answer"
K_QuestionAnswer ==
  <<"q", "u", "e", "s", "t", "i", "o", "n", "-", "a", "n", "s", "w", "e", "r">>

\* the key "one-liner"
K_OneLiner ==
  <<"o", "n", "e", "-", "l", "i", "n", "e", "r">>

\* the key "knock-knock"
K_KnockKnock ==
  <<"k", "n", "o", "c", "k", "-", "k", "n", "o", "c", "k">>

\* the key "classic"
K_Classic ==
  <<"c", "l", "a", "s", "s", "i", "c">>

\* ---- template bodies of JOKE_STYLES (server.py:73-89), character by character ----

\* JOKE_STYLES["pun"]
T_Pun ==
  <<"Y", "o", "u", " ", "a", "r", "e", " ", "a", "n", " ", "e", "x", "p", "e", "r", "t", " ", "c",
    "o", "m", "e", "d", "i", "a", "n", " ", "s", "p", "e", "c", "i", "a", "l", "i", "z", "i", "n",
    "g", " ", "i", "n", " ", "p", "u", "n", "s", " ", "a", "n", "d", " ", "w", "o", "r", "d", "p",
    "l", "a", "y", ".", " ", "C", "r", "e", "a", "t", "e", " ", "a", " ", "c", "l", "e", "v", "e",
    "r", " ", "p", "u", "n", "-", "b", "a", "s", "e", "d", " ", "d", "a", "d", " ", "j", "o", "k",
    "e", " ", "a", "b", "o", "u", "t", " ", "{", "t", "o", "p", "i", "c", "}", " ", "t", "h", "a",
    "t", " ", "p", "l", "a", "y", "s", " ", "o", "n", " ", "m", "u", "l", "t", "i", "p", "l", "e",
    " ", "m", "e", "a", "n", "i", "n", "g", "s", " ", "o", "f", " ", "w", "o", "r", "d", "s", ".",
    " ", "T", "h", "e", " ", "j", "o", "k", "e", " ", "s", "h", "o", "u", "l", "d", " ", "b", "e",
    " ", "g", "r", "o", "a", "n", "-", "w", "o", "r", "t", "h", "y", " ", "b", "u", "t", " ", "c",
    "l", "e", "v", "e", "r", ",", " ", "a", "p", "p", "r", "o", "p", "r", "i", "a", "t", "e", " ",
    "f", "o", "r", " ", "a", "l", "l", " ", "a", "g", "e", "s", ".">>

\* JOKE_STYLES["wordplay"]
T_Wordplay ==
  <<"Y", "o", "u", " ", "a", "r", "e", " ", "a", " ", "m", "a", "s", "t", "e", "r", " ", "o", "f",
    " ", "l", "i", "n", "g", "u", "i", "s", "t", "i", "c", " ", "h", "u", "m", "o", "r", " ", "a",
    "n", "d", " ", "w", "o", "r", "d", "p", "l", "a", "y", ".", " ", "C", "r", "e", "a", "t", "e",
    " ", "a", " ", "d", "a", "d", " ", "j", "o", "k", "e", " ", "a", "b", "o", "u", "t", " ", "{",
    "t", "o", "p", "i", "c", "}", " ", "t", "h", "a", "t", " ", "u", "s", "e", "s", " ", "c", "r",
    "e", "a", "t", "i", "v", "e", " ", "w", "o", "r", "d", " ", "c", "o", "m", "b", "i", "n", "a",
    "t", "i", "o", "n", "s", ",", " ", "h", "o", "m", "o", "p", "h", "o", "n", "e", "s", ",", " ",
    "o", "r", " ", "u", "n", "e", "x", "p", "e", "c", "t", "e", "d", " ", "w", "o", "r", "d", " ",
    "a", "s", "s", "o", "c", "i", "a", "t", "i", "o", "n", "s", ".", " ", "K", "e", "e", "p", " ",
    "i", "t", " ", "f", "a", "m", "i", "l", "y", "-", "f", "r", "i", "e", "n", "d", "l", "y", " ",
    "a", "n", "d", " ", "p", "u", "n", "n", "y", ".">>

\* JOKE_STYLES["observational"]
T_Observational ==
  <<"Y", "o", "u", " ", "a", "r", "e", " ", "a", " ", "c", "o", "m", "e", "d", "i", "a", "n", " ",
    "s", "k", "i", "l", "l", "e", "d", " ", "i", "n", " ", "o", "b", "s", "e", "r", "v", "a", "t",
    "i", "o", "n", "a", "l", " ", "h", "u", "m", "o", "r", ".", " ", "C", "r", "e", "a", "t", "e",
    " ", "a", " ", "d", "a", "d", " ", "j", "o", "k", "e", " ", "a", "b", "o", "u", "t", " ", "{",
    "t", "o", "p", "i", "c", "}", " ", "t", "h", "a", "t", " ", "p", "o", "i", "n", "t", "s", " ",
    "o", "u", "t", " ", "s", "o", "m", "e", "t", "h", "i", "n", "g", " ", "f", "u", "n", "n", "y",
    " ", "o", "r", " ", "a", "b", "s", "u", "r", "d", " ", "a", "b", "o", "u", "t", " ", "e", "v",
    "e", "r", "y", "d", "a", "y", " ", "s", "i", "t", "u", "a", "t", "i", "o", "n", "s", ".", " ",
    "M", "a", "k", "e", " ", "i", "t", " ", "r", "e", "l", "a", "t", "a", "b", "l", "e", " ", "a",
    "n", "d", " ", "w", "h", "o", "l", "e", "s", "o", "m", "e", ".">>

\* JOKE_STYLES["anti-humor"]
T_AntiHumor ==
  <<"Y", "o", "u", " ", "a", "r", "e", " ", "a", " ", "c", "o", "m", "e", "d", "i", "a", "n", " ",
    "w", "h", "o", " ", "s", "p", "e", "c", "i", "a", "l", "i", "z", "e", "s", " ", "i", "n", " ",
    "a", "n", "t", "i", "-", "h", "u", "m", "o", "r", " ", "a", "n", "d", " ", "a", "n", "t", "i",
    "-", "j", "o", "k", "e", "s", ".", " ", "C", "r", "e", "a", "t", "e", " ", "a", " ", "d", "a",
    "d", " ", "j", "o", "k", "e", " ", "a", "b", "o", "u", "t", " ", "{", "t", "o", "p", "i", "c",
    "}", " ", "t", "h", "a", "t", " ", "s", "u", "b", "v", "e", "r", "t", "s", " ", "e", "x", "p",
    "e", "c", "t", "a", "t", "i", "o", "n", "s", " ", "w", "i", "t", "h", " ", "a", "n", " ", "u",
    "n", "e", "x", "p", "e", "c", "t", "e", "d", "l", "y", " ", "l", "i", "t", "e", "r", "a", "l",
    " ", "o", "r", " ", "m", "u", "n", "d", "a", "n", "e", " ", "p", "u", "n", "c", "h", "l", "i",
    "n", "e", ".", " ", "T", "h", "e", " ", "h", "u", "m", "o", "r", " ", "c", "o", "m", "e", "s",
    " ", "f", "r", "o", "m", " ", "t", "h", "e", " ", "l", "a", "c", "k", " ", "o", "f", " ", "a",
    " ", "t", "r", "a", "d", "i", "t", "i", "o", "n", "a", "l", " ", "p", "u", "n", "c", "h", "l",
    "i", "n", "e", ".">>

\* JOKE_STYLES["question-answer"]
T_QuestionAnswer ==
  <<"Y", "o", "u", " ", "a", "r", "e", " ", "a", "n", " ", "e", "x", "p", "e", "r", "t", " ", "a",
    "t", " ", "q", "u", "e", "s", "t", "i", "o", "n", "-", "a", "n", "d", "-", "a", "n", "s", "w",
    "e", "r", " ", "s", "t", "y", "l", "e", " ", "d", "a", "d", " ", "j", "o", "k", "e", "s", ".",
    " ", "C", "r", "e", "a", "t", "e", " ", "a", " ", "d", "a", "d", " ", "j", "o", "k", "e", " ",
    "a", "b", "o", "u", "t", " ", "{", "t", "o", "p", "i", "c", "}", " ", "i", "n", " ", "t", "h",
    "e", " ", "c", "l", "a", "s", "s", "i", "c", " ", "'", "W", "h", "y", " ", "d", "i", "d", " ",
    "t", "h", "e", " ", "X", ".", ".", ".", "?", " ", "B", "e", "c", "a", "u", "s", "e", ".", ".",
    ".", "'", " ", "o", "r", " ", "'", "W", "h", "a", "t", " ", "d", "o", " ", "y", "o", "u", " ",
    "c", "a", "l", "l", ".", ".", ".", "?", "'", " ", "f", "o", "r", "m", "a", "t", ".", " ", "M",
    "a", "k", "e", " ", "i", "t", " ", "p", "u", "n", "n", "y", " ", "a", "n", "d", " ", "g", "r",
    "o", "a", "n", "-", "i", "n", "d", "u", "c", "i", "n", "g", ".">>

\* JOKE_STYLES["one-liner"]
T_OneLiner ==
  <<"Y", "o", "u", " ", "a", "r", "e", " ", "a", " ", "m", "a", "s", "t", "e", "r", " ", "o", "f",
    " ", "c", "o", "n", "c", "i", "s", "e", " ", "o", "n", "e", "-", "l", "i", "n", "e", "r", " ",
    "j", "o", "k", "e", "s", ".", " ", "C", "r", "e", "a", "t", "e", " ", "a", " ", "s", "h", "o",
    "r", "t", ",", " ", "p", "u", "n", "c", "h", "y", " ", "d", "a", "d", " ", "j", "o", "k", "e",
    " ", "a", "b", "o", "u", "t", " ", "{", "t", "o", "p", "i", "c", "}", " ", "t", "h", "a", "t",
    " ", "d", "e", "l", "i", "v", "e", "r", "s", " ", "t", "h", "e", " ", "h", "u", "m", "o", "r",
    " ", "i", "n", " ", "a", " ", "s", "i", "n", "g", "l", "e", " ", "s", "e", "n", "t", "e", "n",
    "c", "e", ".", " ", "F", "o", "c", "u", "s", " ", "o", "n", " ", "w", "o", "r", "d", "p", "l",
    "a", "y", " ", "o", "r", " ", "u", "n", "e", "x", "p", "e", "c", "t", "e", "d", " ", "t", "w",
    "i", "s", "t", "s", ".">>

\* JOKE_STYLES["knock-knock"]
T_KnockKnock ==
  <<"Y", "o", "u", " ", "a", "r", "e", " ", "s", "k", "i", "l", "l", "e", "d", " ", "a", "t", " ",
    "c", "r", "e", "a", "t", "i", "n", "g", " ", "k", "n", "o", "c", "k", "-", "k", "n", "o", "c",
    "k", " ", "j", "o", "k", "e", "s", ".", " ", "C", "r", "e", "a", "t", "e", " ", "a", " ", "k",
    "n", "o", "c", "k", "-", "k", "n", "o", "c", "k", " ", "j", "o", "k", "e", " ", "a", "b", "o",
    "u", "t", " ", "{", "t", "o", "p", "i", "c", "}", " ", "t", "h", "a", "t", " ", "u", "s", "e",
    "s", " ", "c", "l", "e", "v", "e", "r", " ", "w", "o", "r", "d", "p", "l", "a", "y", ".", " ",
    "F", "o", "l", "l", "o", "w", " ", "t", "h", "e", " ", "c", "l", "a", "s", "s", "i", "c", " ",
    "f", "o", "r", "m", "a", "t", ":", " ", "'", "K", "n", "o", "c", "k", " ", "k", "n", "o", "c",
    "k", ".", " ", "W", "h", "o", "'", "s", " ", "t", "h", "e", "r", "e", "?", " ", "[", "X", "]",
    ".", " ", "[", "X", "]", " ", "w", "h", "o", "?", " ", "[", "P", "u", "n", "c", "h", "l", "i",
    "n", "e", "]", ".", "'">>

\* JOKE_STYLES["classic"]
T_Classic ==
  <<"Y", "o", "u", " ", "a", "r", "e", " ", "a", "n", " ", "e", "x", "p", "e", "r", "t", " ", "c",
    "o", "m", "e", "d", "i", "a", "n", " ", "s", "k", "i", "l", "l", "e", "d", " ", "w", "i", "t",
    "h", " ", "p", "u", "n", "s", " ", "a", "n", "d", " ", "d", "a", "d", " ", "j", "o", "k", "e",
    "s", ".", " ", "C", "r", "e", "a", "t", "e", " ", "a", " ", "j", "o", "k", "e", " ", "a", "b",
    "o", "u", "t", " ", "{", "t", "o", "p", "i", "c", "}", " ", "t", "h", "a", "t", " ", "i", "s",
    " ", "a", "p", "p", "r", "o", "p", "r", "i", "a", "t", "e", " ", "f", "o", "r", " ", "a", " ",
    "w", "o", "r", "k", "p", "l", "a", "c", "e", ".", " ", "U", "s", "e", " ", "c", "l", "a", "s",
    "s", "i", "c", " ", "d", "a", "d", " ", "j", "o", "k", "e", " ", "s", "t", "y", "l", "e", " ",
    "w", "i", "t", "h", " ", "g", "r", "o", "a", "n", "-", "w", "o", "r", "t", "h", "y", " ", "p",
    "u", "n", "s", " ", "a", "n", "d", " ", "w", "h", "o", "l", "e", "s", "o", "m", "e", " ", "h",
    "u", "m", "o", "r", ".">>

\* server.py:132,172
S_dad_joke ==
  <<"d", "a", "d", "_", "j", "o", "k", "e">>

\* the keyword of .format(topic=topic), server.py:210; the argument name, server.py:136
S_topic ==
  <<"t", "o", "p", "i", "c">>

\* the argument name, server.py:141
S_style ==
  <<"s", "t", "y", "l", "e">>

\* the default of arguments.get and the fallback, server.py:195,207
S_classic ==
  <<"c", "l", "a", "s", "s", "i", "c">>

\* the replacement field of every template, server.py:74-88
S_slot ==
  <<"{", "t", "o", "p", "i", "c", "}">>

\* str(None), what str.format and an f-string render for a None value
S_None ==
  <<"N", "o", "n", "e">>

\* server.py:173
S_UnknownPrompt ==
  <<"U", "n", "k", "n", "o", "w", "n", " ", "p", "r", "o", "m", "p", "t", ":", " ">>

\* server.py:184
S_MissingTopic ==
  <<"M", "i", "s", "s", "i", "n", "g", " ", "r", "e", "q", "u", "i", "r", "e", "d", " ", "a", "r",
    "g", "u", "m", "e", "n", "t", ":", " ", "t", "o", "p", "i", "c">>

\* server.py:200
S_UnknownStyleA ==
  <<"U", "n", "k", "n", "o", "w", "n", " ", "j", "o", "k", "e", " ", "s", "t", "y", "l", "e", " ",
    "'">>

\* server.py:200
S_UnknownStyleB ==
  <<"'", ",", " ", "f", "a", "l", "l", "i", "n", "g", " ", "b", "a", "c", "k", " ", "t", "o", " ",
    "'", "c", "l", "a", "s", "s", "i", "c", "'">>

\* server.py:213
S_DescA ==
  <<"D", "a", "d", " ", "j", "o", "k", "e", " ", "p", "r", "o", "m", "p", "t", " ", "a", "b", "o",
    "u", "t", " ">>

\* server.py:213
S_DescB ==
  <<" ", "i", "n", " ">>

\* server.py:213
S_DescC ==
  <<" ", "s", "t", "y", "l", "e">>

\* server.py:133
S_PromptDescription ==
  <<"G", "e", "n", "e", "r", "a", "t", "e", " ", "a", " ", "d", "a", "d", " ", "j", "o", "k", "e",
    " ", "p", "r", "o", "m", "p", "t", " ", "a", "b", "o", "u", "t", " ", "a", "n", "y", " ", "t",
    "o", "p", "i", "c", ".", " ", "S", "u", "p", "p", "o", "r", "t", "s", " ", "m", "u", "l", "t",
    "i", "p", "l", "e", " ", "j", "o", "k", "e", " ", "s", "t", "y", "l", "e", "s", ".">>

\* server.py:137
S_TopicDescription ==
  <<"T", "h", "e", " ", "t", "o", "p", "i", "c", " ", "o", "r", " ", "s", "u", "b", "j", "e", "c",
    "t", " ", "f", "o", "r", " ", "t", "h", "e", " ", "d", "a", "d", " ", "j", "o", "k", "e">>

\* server.py:142
S_StyleDescA ==
  <<"T", "h", "e", " ", "s", "t", "y", "l", "e", " ", "o", "f", " ", "d", "a", "d", " ", "j", "o",
    "k", "e", ".", " ", "O", "p", "t", "i", "o", "n", "s", ":", " ">>

\* server.py:142
S_StyleDescB ==
  <<".", " ", "D", "e", "f", "a", "u", "l", "t", ":", " ", "c", "l", "a", "s", "s", "i", "c">>

\* the separator of ', '.join, server.py:142
S_CommaSpace ==
  <<",", " ">>

\* server.py:100
S_IncomingRequest ==
  <<"I", "n", "c", "o", "m", "i", "n", "g", " ", "M", "C", "P", " ", "r", "e", "q", "u", "e", "s",
    "t">>

\* server.py:114
S_OutgoingResponse ==
  <<"O", "u", "t", "g", "o", "i", "n", "g", " ", "M", "C", "P", " ", "r", "e", "s", "p", "o", "n",
    "s", "e">>

\* server.py:151
S_ListedPrompts ==
  <<"L", "i", "s", "t", "e", "d", " ", "a", "v", "a", "i", "l", "a", "b", "l", "e", " ", "p", "r",
    "o", "m", "p", "t", "s">>

\* server.py:227
S_GeneratedPrompt ==
  <<"G", "e", "n", "e", "r", "a", "t", "e", "d", " ", "d", "a", "d", " ", "j", "o", "k", "e", " ",
    "p", "r", "o", "m", "p", "t">>

\* ---- the texts the calls are made with, and the phrases looked for ----

\* "not_a_real_op"
I_not_a_real_op ==
  <<"n", "o", "t", "_", "a", "_", "r", "e", "a", "l", "_", "o", "p">>

\* "chickens"
I_chickens ==
  <<"c", "h", "i", "c", "k", "e", "n", "s">>

\* "{topic} and {braces}"
I_braces ==
  <<"{", "t", "o", "p", "i", "c", "}", " ", "a", "n", "d", " ", "{", "b", "r", "a", "c", "e", "s",
    "}">>

\* "PUN"
I_PUN ==
  <<"P", "U", "N">>

\* "Knock-Knock"
I_KnockKnock ==
  <<"K", "n", "o", "c", "k", "-", "K", "n", "o", "c", "k">>

\* "xyz-unknown"
I_xyz_unknown ==
  <<"x", "y", "z", "-", "u", "n", "k", "n", "o", "w", "n">>

\* "XYZ-Unknown"
I_XYZ_Unknown ==
  <<"X", "Y", "Z", "-", "U", "n", "k", "n", "o", "w", "n">>

\* "Knock knock."
P_KnockKnock ==
  <<"K", "n", "o", "c", "k", " ", "k", "n", "o", "c", "k", ".">>

\* "You are skilled at creating knock-knock jokes."
P_YouAreSkilled ==
  <<"Y", "o", "u", " ", "a", "r", "e", " ", "s", "k", "i", "l", "l", "e", "d", " ", "a", "t", " ",
    "c", "r", "e", "a", "t", "i", "n", "g", " ", "k", "n", "o", "c", "k", "-", "k", "n", "o", "c",
    "k", " ", "j", "o", "k", "e", "s", ".">>

\* "pun, wordplay, observational, anti-humor, question-answer, one-liner, knock-knock, classic"
P_StyleList ==
  <<"p", "u", "n", ",", " ", "w", "o", "r", "d", "p", "l", "a", "y", ",", " ", "o", "b", "s", "e",
    "r", "v", "a", "t", "i", "o", "n", "a", "l", ",", " ", "a", "n", "t", "i", "-", "h", "u", "m",
    "o", "r", ",", " ", "q", "u", "e", "s", "t", "i", "o", "n", "-", "a", "n", "s", "w", "e", "r",
    ",", " ", "o", "n", "e", "-", "l", "i", "n", "e", "r", ",", " ", "k", "n", "o", "c", "k", "-",
    "k", "n", "o", "c", "k", ",", " ", "c", "l", "a", "s", "s", "i", "c">>

\* ======================= Python values and built-ins =======================

\* a str value
Str(s) == [isNone |-> FALSE, s |-> s]

\* the value None
PyNone == [isNone |-> TRUE, s |-> <<>>]

\* str(v): what str.format and an f-string put in the text for the value v
PyStr(v) == IF v.isNone THEN S_None ELSE v.s

UpperCase ==
  <<"A", "B", "C", "D", "E", "F", "G", "H", "I", "J", "K", "L", "M",
    "N", "O", "P", "Q", "R", "S", "T", "U", "V", "W", "X", "Y", "Z">>

LowerCase ==
  <<"a", "b", "c", "d", "e", "f", "g", "h", "i", "j", "k", "l", "m",
    "n", "o", "p", "q", "r", "s", "t", "u", "v", "w", "x", "y", "z">>

LowerChar(c) ==
  IF \E i \in 1..Len(UpperCase) : UpperCase[i] = c
  THEN LowerCase[CHOOSE i \in 1..Len(UpperCase) : UpperCase[i] = c]
  ELSE c

\* str.lower()
Lower(s) == [i \in 1..Len(s) |-> LowerChar(s[i])]

\* sep.join(parts)
RECURSIVE Join(_, _)
Join(sep, parts) ==
  IF parts = <<>> THEN <<>>
  ELSE IF Len(parts) = 1 THEN parts[1]
  ELSE parts[1] \o sep \o Join(sep, Tail(parts))

\* needle in haystack, for two strings
Occurs(needle, haystack) ==
  \E i \in 1..(Len(haystack) - Len(needle) + 1) :
    SubSeq(haystack, i, i + Len(needle) - 1) = needle

\* haystack.startswith(needle)
StartsWith(needle, haystack) ==
  /\ Len(needle) <= Len(haystack)
  /\ SubSeq(haystack, 1, Len(needle)) = needle

\* the number of places of haystack where needle stands
Occurrences(needle, haystack) ==
  Cardinality({i \in 1..(Len(haystack) - Len(needle) + 1) :
                 SubSeq(haystack, i, i + Len(needle) - 1) = needle})

\* the first index j >= i of t holding one of the characters cs, Len(t) + 1 when there is none
NextOf(cs, t, i) ==
  LET found == {j \in i..Len(t) : t[j] \in cs} IN
  IF found = {} THEN Len(t) + 1
  ELSE CHOOSE j \in found : \A k \in found : j <= k

\* template.format(topic=topic), scanning from index i: "{{" and "}}" are
\* escapes, "{name}" is replaced by str() of the keyword argument of that
\* name, the replacement text is never scanned again.  A single "}" or an
\* unclosed "{" raises ValueError, a field other than "topic" raises KeyError.
RECURSIVE FormatFrom(_, _, _)
FormatFrom(t, i, topic) ==
  LET j == NextOf({"{", "}"}, t, i) IN
  IF j > Len(t) THEN [raised |-> "", text |-> SubSeq(t, i, Len(t))]
  ELSE IF j < Len(t) /\ t[j + 1] = t[j]
  THEN LET rest == FormatFrom(t, j + 2, topic) IN
       [raised |-> rest.raised, text |-> SubSeq(t, i, j) \o rest.text]
  ELSE IF t[j] = "}" THEN [raised |-> "ValueError", text |-> <<>>]
  ELSE LET k == NextOf({"}"}, t, j + 1) IN
       IF k > Len(t) THEN [raised |-> "ValueError", text |-> <<>>]
       ELSE IF SubSeq(t, j + 1, k - 1) # S_topic THEN [raised |-> "KeyError", text |-> <<>>]
       ELSE LET rest == FormatFrom(t, k + 1, topic) IN
            [raised |-> rest.raised,
             text |-> SubSeq(t, i, j - 1) \o PyStr(topic) \o rest.text]

\* a plausible slip: the topic is spliced into the template first and the
\* result is formatted, so that braces of the topic are read as fields
FormatSpliced(template, topic) ==
  LET j == NextOf({"{"}, template, 1)
      k == NextOf({"}"}, template, j + 1)
      spliced == SubSeq(template, 1, j - 1) \o PyStr(topic)
                   \o SubSeq(template, k + 1, Len(template))
  IN FormatFrom(spliced, 1, topic)

\* JOKE_STYLES[style].format(topic=topic)
Format(template, topic) == FormatFrom(template, 1, topic)

\* ============================ the style catalog ============================

\* the literal the module binds JOKE_STYLES to; a dict keeps insertion order
StyleTable ==
  << [key |-> K_Pun, template |-> T_Pun],
     [key |-> K_Wordplay, template |-> T_Wordplay],
     [key |-> K_Observational, template |-> T_Observational],
     [key |-> K_AntiHumor, template |-> T_AntiHumor],
     [key |-> K_QuestionAnswer, template |-> T_QuestionAnswer],
     [key |-> K_OneLiner, template |-> T_OneLiner],
     [key |-> K_KnockKnock, template |-> T_KnockKnock],
     [key |-> K_Classic, template |-> T_Classic] >>

\* a plausible slip: the keys are listed from last to first
KeysReversed(styles) == [i \in 1..Len(styles) |-> styles[Len(styles) + 1 - i].key]

\* list(JOKE_STYLES.keys())
Keys(styles) == [i \in 1..Len(styles) |-> styles[i].key]

\* style in JOKE_STYLES
Contains(styles, style) == \E i \in 1..Len(styles) : styles[i].key = style

\* JOKE_STYLES[style], for a key the dict holds
GetItem(styles, style) ==
  styles[CHOOSE i \in 1..Len(styles) : styles[i].key = style].template

\* JOKE_STYLES[key] = template: a new key is appended, a known key is rebound
SetItem(styles, key, template) ==
  IF Contains(styles, key)
  THEN [i \in 1..Len(styles) |->
          IF styles[i].key = key THEN [key |-> key, template |-> template] ELSE styles[i]]
  ELSE Append(styles, [key |-> key, template |-> template])

\* ================================ settings ================================

\* Settings.log_requests
log_requests == TRUE

\* Settings.log_responses
log_responses == TRUE

\* ============================== log_request ===============================

log_request(request_id, request_type, data, now) ==
  IF log_requests
  THEN << [level |-> "INFO", message |-> S_IncomingRequest, request_id |-> request_id,
           request_type |-> request_type, request_data |-> data, timestamp |-> now] >>
  ELSE <<>>

log_response(request_id, request_type, response, now) ==
  IF log_responses
  THEN << [level |-> "INFO", message |-> S_OutgoingResponse, request_id |-> request_id,
           request_type |-> request_type, response_data |-> response, timestamp |-> now] >>
  ELSE <<>>

\* ============================== list_prompts ==============================

\* a plausible slip: the options are enumerated in another order than the catalog's
StyleArgumentDescriptionReversed(styles) ==
  S_StyleDescA \o Join(S_CommaSpace, KeysReversed(styles)) \o S_StyleDescB

\* f"The style of dad joke. Options: {', '.join(JOKE_STYLES.keys())}. Default: classic"
StyleArgumentDescription(styles) ==
  S_StyleDescA \o Join(S_CommaSpace, Keys(styles)) \o S_StyleDescB

\* the list list_prompts returns
Prompts(styles) ==
  << [name |-> S_dad_joke,
      description |-> S_PromptDescription,
      arguments |->
        << [name |-> S_topic, description |-> S_TopicDescription, required |-> TRUE],
           [name |-> S_style, description |-> StyleArgumentDescription(styles),
            required |-> FALSE] >>] >>

\* what one run of list_prompts returns and logs
ListPrompts(styles, request_id, now1, now2) ==
  LET prompts == Prompts(styles) IN
  [raised |-> "", error_msg |-> <<>>, result |-> <<prompts>>,
   records |->
     log_request(request_id, "list_prompts", <<>>, now1)
       \o log_response(request_id, "list_prompts", prompts, now2)
       \o << [level |-> "INFO", message |-> S_ListedPrompts, request_id |-> request_id,
              prompt_count |-> Len(prompts),
              prompt_names |-> [i \in 1..Len(prompts) |-> prompts[i].name]] >>]

\* =============================== get_prompt ===============================

\* the value of `arguments` when the caller passes None
NoArguments == [isNone |-> TRUE, dict |-> [k \in {} |-> PyNone]]

\* a dict passed as `arguments`
Dict(d) == [isNone |-> FALSE, dict |-> d]

\* a plausible slip: the topic check is made before the name check
FailedCheckTopicFirst(name, arguments) ==
  IF arguments.isNone \/ DOMAIN arguments.dict = {} \/ "topic" \notin DOMAIN arguments.dict
  THEN "MissingTopic"
  ELSE IF name # S_dad_joke THEN "UnknownPrompt"
  ELSE ""

\* the two guards of get_prompt, in the order the code makes them:
\* name != "dad_joke", then not arguments or "topic" not in arguments
FailedCheck(name, arguments) ==
  IF name # S_dad_joke THEN "UnknownPrompt"
  ELSE IF arguments.isNone \/ DOMAIN arguments.dict = {} \/ "topic" \notin DOMAIN arguments.dict
  THEN "MissingTopic"
  ELSE ""

\* arguments.get("style", "classic")
RequestedStyle(arguments) ==
  IF "style" \in DOMAIN arguments.dict THEN arguments.dict["style"] ELSE Str(S_classic)

\* a plausible slip: the style is looked up as given
NormalizedStyleAsGiven(requested) == requested.s

\* .lower() of the requested style, a str
NormalizedStyle(requested) == Lower(requested.s)

\* a plausible slip: the fallback is assigned before the warning is logged
StyleWarningAfterFallback(styles, request_id, style) ==
  IF ~Contains(styles, style)
  THEN << [level |-> "WARNING",
           message |-> S_UnknownStyleA \o S_classic \o S_UnknownStyleB,
           request_id |-> request_id,
           requested_style |-> S_classic,
           available_styles |-> Keys(styles)] >>
  ELSE <<>>

\* the logger.warning of the style validation
StyleWarning(styles, request_id, style) ==
  IF ~Contains(styles, style)
  THEN << [level |-> "WARNING",
           message |-> S_UnknownStyleA \o style \o S_UnknownStyleB,
           request_id |-> request_id,
           requested_style |-> style,
           available_styles |-> Keys(styles)] >>
  ELSE <<>>

\* a plausible slip: the test of the style validation is inverted
ResolvedStyleInverted(styles, style) ==
  IF Contains(styles, style) THEN S_classic ELSE style

\* the style after the validation: itself when known, "classic" otherwise
ResolvedStyle(styles, style) ==
  IF ~Contains(styles, style) THEN S_classic ELSE style

\* a plausible slip: the request id is put in the description
ResultStamped(request_id, topic, style, prompt_text) ==
  [description |-> S_DescA \o PyStr(topic) \o S_DescB \o style \o S_DescC \o request_id,
   messages |-> << [role |-> "user", content |-> [type |-> "text", text |-> prompt_text]] >>]

\* the GetPromptResult the handler builds; request_id is in scope there and unused
Result(request_id, topic, style, prompt_text) ==
  [description |-> S_DescA \o PyStr(topic) \o S_DescB \o style \o S_DescC,
   messages |-> << [role |-> "user", content |-> [type |-> "text", text |-> prompt_text]] >>]

\* an exception leaving the handler: nothing is returned
Raise(kind, error_msg, records) ==
  [raised |-> kind, error_msg |-> error_msg, result |-> <<>>, records |-> records]

\* what one run of get_prompt returns or raises, and what it logs
GetPrompt(styles, request_id, now1, now2, name, arguments) ==
  LET entry == log_request(request_id, "get_prompt",
                           [name |-> name, arguments |-> arguments], now1)
      failed == FailedCheck(name, arguments)
  IN
  IF failed = "UnknownPrompt"
  THEN Raise("ValueError", S_UnknownPrompt \o name,
             entry \o << [level |-> "ERROR", message |-> S_UnknownPrompt \o name,
                          request_id |-> request_id, prompt_name |-> name] >>)
  ELSE IF failed = "MissingTopic"
  THEN Raise("ValueError", S_MissingTopic,
             entry \o << [level |-> "ERROR", message |-> S_MissingTopic,
                          request_id |-> request_id, arguments |-> arguments] >>)
  ELSE
    LET topic == arguments.dict["topic"]
        requested == RequestedStyle(arguments)
    IN
    IF requested.isNone
    THEN \* None has no attribute lower
         Raise("AttributeError", <<>>, entry)
    ELSE
      LET style == NormalizedStyle(requested)
          warning == StyleWarning(styles, request_id, style)
          resolved == ResolvedStyle(styles, style)
      IN
      IF ~Contains(styles, resolved)
      THEN Raise("KeyError", <<>>, entry \o warning)
      ELSE
        LET formatted == Format(GetItem(styles, resolved), topic) IN
        IF formatted.raised # ""
        THEN Raise(formatted.raised, <<>>, entry \o warning)
        ELSE
          LET result == Result(request_id, topic, resolved, formatted.text) IN
          [raised |-> "", error_msg |-> <<>>, result |-> <<result>>,
           records |->
             entry \o warning
               \o log_response(request_id, "get_prompt", result, now2)
               \o << [level |-> "INFO", message |-> S_GeneratedPrompt,
                      request_id |-> request_id, topic |-> topic, style |-> resolved,
                      prompt_length |-> Len(formatted.text)] >>]

\* ========================= the calls that are made =========================

HexDigits == <<"0", "1", "2", "3", "4", "5", "6", "7", "8", "9">>

\* the values of str(uuid.uuid4())
RequestIds == { <<HexDigits[i]>> : i \in 1..NumRequestIds }

Names == {S_dad_joke, I_not_a_real_op}

Topics == {Str(I_chickens), Str(I_braces), Str(<<>>), PyNone}

Styles ==
  {Str(StyleTable[i].key) : i \in 1..Len(StyleTable)}
    \cup {Str(I_PUN), Str(I_KnockKnock), Str(I_xyz_unknown), Str(I_XYZ_Unknown), Str(<<>>), PyNone}

\* None, {}, and every dict over the keys "topic" and "style"
Arguments ==
  {NoArguments}
    \cup { Dict([k \in K |-> IF k = "topic" THEN t ELSE s]) :
             K \in SUBSET {"topic", "style"}, t \in Topics, s \in Styles }

\* ================================= state ==================================

VARIABLES
  JOKE_STYLES,  \* the module-level dict of templates
  clock,        \* the reading datetime.utcnow() gives
  request,      \* the call made last
  outcome,      \* what it returned or raised
  records,      \* what it passed to the logger, in order
  seen          \* an earlier get_prompt call and its outcome, once one is remembered

vars == <<JOKE_STYLES, clock, request, outcome, records, seen>>

NoCall == [op |-> "", name |-> <<>>, arguments |-> NoArguments, request_id |-> <<>>]

NoOutcome == [raised |-> "", error_msg |-> <<>>, result |-> <<>>]

Init ==
  /\ JOKE_STYLES = StyleTable
  /\ clock = 1
  /\ request = NoCall
  /\ outcome = NoOutcome
  /\ records = <<>>
  /\ seen = <<>>

\* uuid4 draws a new id for every call: never the id of the call before
FreshIds == RequestIds \ {request.request_id}

\* a handler runs without suspending: both of its readings of the clock
\* (log_request, log_response) fall in the tick it runs in

\* one run of the handler list_prompts
ListPromptsStep(request_id) ==
  LET run == ListPrompts(JOKE_STYLES, request_id, clock, clock) IN
  /\ request' = [op |-> "list_prompts", name |-> <<>>, arguments |-> NoArguments,
                 request_id |-> request_id]
  /\ outcome' = [raised |-> run.raised, error_msg |-> run.error_msg, result |-> run.result]
  /\ records' = run.records
  /\ UNCHANGED <<JOKE_STYLES, clock>>

list_prompts ==
  \E request_id \in FreshIds :
    /\ ListPromptsStep(request_id)
    /\ UNCHANGED seen

\* a plausible slip: the fallback is cached in the catalog under the unknown key
GetPromptStepCaching(name, arguments, request_id) ==
  LET run == GetPrompt(JOKE_STYLES, request_id, clock, clock, name, arguments) IN
  /\ request' = [op |-> "get_prompt", name |-> name, arguments |-> arguments,
                 request_id |-> request_id]
  /\ outcome' = [raised |-> run.raised, error_msg |-> run.error_msg, result |-> run.result]
  /\ records' = run.records
  /\ JOKE_STYLES' =
       IF run.raised = ""
            /\ ~Contains(JOKE_STYLES, NormalizedStyle(RequestedStyle(arguments)))
       THEN SetItem(JOKE_STYLES, NormalizedStyle(RequestedStyle(arguments)),
                    GetItem(JOKE_STYLES, S_classic))
       ELSE JOKE_STYLES
  /\ UNCHANGED clock

\* one run of the handler get_prompt
GetPromptStep(name, arguments, request_id) ==
  LET run == GetPrompt(JOKE_STYLES, request_id, clock, clock, name, arguments) IN
  /\ request' = [op |-> "get_prompt", name |-> name, arguments |-> arguments,
                 request_id |-> request_id]
  /\ outcome' = [raised |-> run.raised, error_msg |-> run.error_msg, result |-> run.result]
  /\ records' = run.records
  /\ UNCHANGED <<JOKE_STYLES, clock>>

get_prompt ==
  \E name \in Names, arguments \in Arguments, request_id \in FreshIds :
    /\ GetPromptStep(name, arguments, request_id)
    /\ UNCHANGED seen

\* time passes between two calls
Tick ==
  /\ clock < MaxTime
  /\ clock' = clock + 1
  /\ UNCHANGED <<JOKE_STYLES, request, outcome, records, seen>>

Next == list_prompts \/ get_prompt \/ Tick

Spec == Init /\ [][Next]_vars

\* ------------- the same handlers, with an earlier call remembered -------------

RepeatTopics == {Str(I_chickens)}

RepeatStyles == {Str(K_Pun), Str(I_XYZ_Unknown), PyNone}

RepeatArguments ==
  {NoArguments}
    \cup { Dict([k \in K |-> IF k = "topic" THEN t ELSE s]) :
             K \in SUBSET {"topic", "style"}, t \in RepeatTopics, s \in RepeatStyles }

\* the call just made and its outcome
Remembered(name, arguments) ==
  [name |-> name, arguments |-> arguments, outcome |-> outcome', between |-> FALSE]

\* the remembered call, once another call has been made after it
Overtaken(name, arguments) ==
  IF seen = <<>> \/ (seen[1].name = name /\ seen[1].arguments = arguments)
  THEN seen
  ELSE << [seen[1] EXCEPT !.between = TRUE] >>

get_prompt_watched ==
  \E name \in Names, arguments \in RepeatArguments, request_id \in FreshIds :
    /\ GetPromptStep(name, arguments, request_id)
    /\ seen' \in {Overtaken(name, arguments), <<Remembered(name, arguments)>>}

list_prompts_watched ==
  \E request_id \in FreshIds :
    /\ ListPromptsStep(request_id)
    /\ seen' = IF seen = <<>> THEN seen ELSE << [seen[1] EXCEPT !.between = TRUE] >>

NextWatched == list_prompts_watched \/ get_prompt_watched \/ Tick

SpecWatched == Init /\ [][NextWatched]_vars

\* ================================ properties ================================

\* the eight identifiers, in the order the catalog declares them
CatalogIds ==
  <<K_Pun, K_Wordplay, K_Observational, K_AntiHumor, K_QuestionAnswer, K_OneLiner,
    K_KnockKnock, K_Classic>>

IsCatalogId(s) == \E i \in 1..Len(CatalogIds) : CatalogIds[i] = s

\* the template with its slot, the first occurrence of "{topic}", replaced by the text
Substituted(template, text) ==
  LET p == CHOOSE p \in 1..Len(template) : SubSeq(template, p, p + Len(S_slot) - 1) = S_slot
  IN SubSeq(template, 1, p - 1) \o text \o SubSeq(template, p + Len(S_slot), Len(template))

\* the template the catalog is declared with for an identifier
TemplateOf(id) == StyleTable[CHOOSE i \in 1..Len(StyleTable) : StyleTable[i].key = id].template

\* the last call was get_prompt('dad_joke', a dict)
DadJokeCall ==
  /\ request.op = "get_prompt"
  /\ request.name = S_dad_joke
  /\ ~request.arguments.isNone

HasKey(k) == k \in DOMAIN request.arguments.dict

\* the last call was get_prompt('dad_joke', ...) with a topic that is a non-empty string
DadJokeCallWithTopic ==
  /\ DadJokeCall
  /\ HasKey("topic")
  /\ ~request.arguments.dict["topic"].isNone
  /\ request.arguments.dict["topic"].s # <<>>

TopicText == request.arguments.dict["topic"].s

\* the style of the last call is no catalog identifier after lower-casing:
\* absent, null, or a string whose lower case is not in the catalog
StyleUnrecognized ==
  \/ ~HasKey("style")
  \/ request.arguments.dict["style"].isNone
  \/ ~IsCatalogId(Lower(request.arguments.dict["style"].s))

\* the call returned a response with exactly one message
Returned == outcome.raised = "" /\ Len(outcome.result) = 1 /\ Len(outcome.result[1].messages) = 1

MessageText == outcome.result[1].messages[1].content.text

\* C1: for every non-empty topic T and every style value that is not a catalog
\* identifier after lower-casing (empty, unknown in mixed case, absent, or
\* present with a null value), get_prompt('dad_joke', ...) raises no error and
\* returns the 'classic' template with T substituted.
C1_FallbackAlwaysSucceeds ==
  (DadJokeCallWithTopic /\ StyleUnrecognized)
    => /\ Returned
       /\ MessageText = Substituted(T_Classic, TopicText)

\* the topic of the last call is missing: no arguments, an empty dict, no
\* 'topic' key, a null topic, or the empty string
TopicIsMissing ==
  \/ request.arguments.isNone
  \/ DOMAIN request.arguments.dict = {}
  \/ ~HasKey("topic")
  \/ request.arguments.dict["topic"].isNone
  \/ request.arguments.dict["topic"].s = <<>>

\* C2: for every style value, get_prompt('dad_joke', arguments) fails with the
\* missing-argument error and returns no response whenever the topic is
\* missing: null or empty arguments, no 'topic' key, a null topic, or the
\* empty string.
C2_MissingTopicFails ==
  (request.op = "get_prompt" /\ request.name = S_dad_joke /\ TopicIsMissing)
    => /\ outcome.raised = "ValueError"
       /\ outcome.error_msg = S_MissingTopic
       /\ outcome.result = <<>>

\* C3: for every operation name other than 'dad_joke', get_prompt fails with
\* the unknown-operation error whatever the arguments are; the name is checked
\* before the topic, so a wrong name with a missing topic reports the unknown
\* operation and never the missing argument.
C3_UnknownOperationFirst ==
  (request.op = "get_prompt" /\ request.name # S_dad_joke)
    => /\ outcome.raised = "ValueError"
       /\ outcome.error_msg = S_UnknownPrompt \o request.name
       /\ outcome.error_msg # S_MissingTopic
       /\ outcome.result = <<>>

\* a call with a wrong name and no topic has been answered
C3_Witness ==
  /\ request.op = "get_prompt"
  /\ request.name = I_not_a_real_op
  /\ request.arguments.isNone
  /\ outcome.raised = "ValueError"

\* the last call names a catalog identifier as its style, exactly as declared
StyleIsCatalogId ==
  /\ HasKey("style")
  /\ ~request.arguments.dict["style"].isNone
  /\ IsCatalogId(request.arguments.dict["style"].s)

\* C4: for every non-empty topic T (also one with braces or the text
\* '{topic}' in it) and each of the eight catalog identifiers S,
\* get_prompt('dad_joke', {topic: T, style: S}) returns exactly one message
\* whose text is non-empty, contains T verbatim and is the template of S with
\* its single slot replaced by T.
C4_CatalogStyleSubstitutes ==
  (DadJokeCallWithTopic /\ StyleIsCatalogId)
    => /\ Returned
       /\ MessageText # <<>>
       /\ Occurs(TopicText, MessageText)
       /\ MessageText = Substituted(TemplateOf(request.arguments.dict["style"].s), TopicText)

\* a topic with braces and the text '{topic}' has been substituted into a catalog template
C4_Witness ==
  /\ DadJokeCallWithTopic
  /\ StyleIsCatalogId
  /\ TopicText = I_braces
  /\ request.arguments.dict["style"].s = K_AntiHumor
  /\ Returned

\* the last call was get_prompt('dad_joke', {topic: 'chickens', style: 'knock-knock'})
ChickensKnockKnock ==
  /\ DadJokeCall
  /\ request.arguments.dict = [k \in {"topic", "style"} |->
                                 IF k = "topic" THEN Str(I_chickens) ELSE Str(K_KnockKnock)]

\* C5 as stated: for topic='chickens', style='knock-knock' the returned text
\* begins with the literal phrase 'Knock knock.' and contains 'chickens'.
C5_BeginsWithKnockKnock ==
  ChickensKnockKnock
    => /\ Returned
       /\ StartsWith(P_KnockKnock, MessageText)
       /\ Occurs(I_chickens, MessageText)

\* C5, amended: for topic='chickens', style='knock-knock' the returned text
\* contains the literal phrase 'Knock knock.' and contains 'chickens'; it
\* begins with 'You are skilled at creating knock-knock jokes.'.
C5_ContainsKnockKnock ==
  ChickensKnockKnock
    => /\ Returned
       /\ Occurs(P_KnockKnock, MessageText)
       /\ Occurs(I_chickens, MessageText)
       /\ StartsWith(P_YouAreSkilled, MessageText)

C5_Witness == ChickensKnockKnock /\ Returned

\* the style of a call, when it is a string
StyleText(call) == call.arguments.dict["style"].s

HasStringStyle(call) ==
  /\ ~call.arguments.isNone
  /\ "style" \in DOMAIN call.arguments.dict
  /\ ~call.arguments.dict["style"].isNone

\* two get_prompt('dad_joke', ...) calls with the same non-empty topic whose
\* styles are strings that differ at most in letter case
SameButCase(a, b) ==
  /\ a.op = "get_prompt" /\ b.op = "get_prompt"
  /\ a.name = S_dad_joke /\ b.name = S_dad_joke
  /\ HasStringStyle(a) /\ HasStringStyle(b)
  /\ "topic" \in DOMAIN a.arguments.dict /\ "topic" \in DOMAIN b.arguments.dict
  /\ a.arguments.dict["topic"] = b.arguments.dict["topic"]
  /\ ~a.arguments.dict["topic"].isNone
  /\ a.arguments.dict["topic"].s # <<>>
  /\ Len(StyleText(a)) = Len(StyleText(b))
  /\ \A i \in 1..Len(StyleText(a)) :
       \/ StyleText(a)[i] = StyleText(b)[i]
       \/ \E j \in 1..Len(UpperCase) :
            {StyleText(a)[i], StyleText(b)[i]} = {UpperCase[j], LowerCase[j]}

\* C6: style matching is case-insensitive: for every non-empty topic and two
\* styles that differ only in letter case, a call with the one and the next
\* call with the other return identical responses, message text and
\* description.
C6_CaseInsensitive ==
  [][SameButCase(request, request') => (outcome' = outcome /\ outcome'.raised = "")]_vars

\* a style in upper case has been resolved as the catalog's lower-case identifier
C6_Witness ==
  /\ DadJokeCallWithTopic
  /\ HasStringStyle(request)
  /\ StyleText(request) = I_PUN
  /\ Returned
  /\ MessageText = Substituted(T_Pun, TopicText)

\* the descriptor list_prompts is to return
ExpectedPrompts ==
  << [name |-> S_dad_joke,
      description |-> S_PromptDescription,
      arguments |->
        << [name |-> S_topic, description |-> S_TopicDescription, required |-> TRUE],
           [name |-> S_style,
            description |-> S_StyleDescA \o P_StyleList \o S_StyleDescB,
            required |-> FALSE] >>] >>

\* C7: list_prompts is deterministic: after any sequence of calls it returns
\* the same descriptor, naming the one operation 'dad_joke' with 'topic'
\* required and 'style' optional, the style description listing the catalog's
\* identifiers in declaration order followed by the default 'classic'.
C7_ListPromptsDescriptor ==
  request.op = "list_prompts"
    => /\ outcome.raised = ""
       /\ outcome.result = <<ExpectedPrompts>>
       /\ P_StyleList = Join(S_CommaSpace, CatalogIds)
       /\ Keys(JOKE_STYLES) = CatalogIds

C7_Witness ==
  /\ request.op = "list_prompts"
  /\ Len(outcome.result) = 1
  /\ Len(outcome.result[1]) = 1
  /\ clock = MaxTime

\* C8: get_prompt is idempotent and independent of other calls: a call with
\* the name and arguments of an earlier call returns the response, or raises
\* the error, the earlier one did, whatever calls were made in between and
\* whatever the request ids and timestamps of the two calls are.
C8_Idempotent ==
  (/\ seen # <<>>
   /\ request.op = "get_prompt"
   /\ request.name = seen[1].name
   /\ request.arguments = seen[1].arguments)
    => outcome = seen[1].outcome

\* a call has been repeated after other calls and returned a response again
C8_Witness ==
  /\ seen # <<>>
  /\ seen[1].between
  /\ request.op = "get_prompt"
  /\ request.name = seen[1].name
  /\ request.arguments = seen[1].arguments
  /\ outcome.raised = ""
  /\ outcome = seen[1].outcome

\* the positions of the warnings among the records of the last call
Warnings == {i \in 1..Len(records) : records[i].level = "WARNING"}

\* the last call passed the name check and the topic check of the handler
\* and its style, lower-cased, is no catalog identifier
ShouldWarn ==
  /\ DadJokeCall
  /\ HasKey("topic")
  /\ HasKey("style")
  /\ ~request.arguments.dict["style"].isNone
  /\ ~IsCatalogId(Lower(request.arguments.dict["style"].s))

\* C9: the unrecognized-style warning is emitted exactly when a get_prompt
\* call has passed the name and topic checks and its lower-cased style is not
\* a catalog identifier; it carries the requested style (as lower-cased) and
\* the full list of catalog identifiers and precedes the records of the
\* response; a recognized or absent style, a failing call and list_prompts
\* emit none.
C9_WarningExactlyOnFallback ==
  /\ (Warnings # {}) <=> ShouldWarn
  /\ Cardinality(Warnings) <= 1
  /\ \A i \in Warnings :
       /\ records[i].requested_style = Lower(request.arguments.dict["style"].s)
       /\ records[i].available_styles = CatalogIds
       /\ records[i].request_id = request.request_id
       /\ outcome.raised = ""
       /\ i < Len(records)
       /\ records[Len(records)].message = S_GeneratedPrompt
       /\ \A j \in 1..Len(records) : records[j].message = S_OutgoingResponse => i < j

\* a call with an unknown style in mixed case has been answered with a warning
C9_Witness ==
  /\ ShouldWarn
  /\ request.arguments.dict["style"].s = I_XYZ_Unknown
  /\ Warnings # {}
  /\ Returned

\* C10: in every reachable state the catalog is as declared: exactly the eight
\* identifiers pun, wordplay, observational, anti-humor, question-answer,
\* one-liner, knock-knock and classic, the fallback 'classic' among them, and
\* every template with exactly one topic slot.
C10_CatalogUnchanged ==
  /\ Keys(JOKE_STYLES) = CatalogIds
  /\ Len(JOKE_STYLES) = 8
  /\ Contains(JOKE_STYLES, S_classic)
  /\ \A i \in 1..Len(JOKE_STYLES) :
       /\ Occurrences(S_slot, JOKE_STYLES[i].template) = 1
       /\ Occurrences(<<"{">>, JOKE_STYLES[i].template) = 1
       /\ Occurrences(<<"}">>, JOKE_STYLES[i].template) = 1
       /\ JOKE_STYLES[i].template = StyleTable[i].template

\* the fallback has been taken for an unknown style
C10_Witness ==
  /\ ShouldWarn
  /\ Returned
  /\ MessageText = Substituted(T_Classic, PyStr(request.arguments.dict["topic"]))
  /\ JOKE_STYLES = StyleTable
====
